---- MODULE Spec2Model ----
(***************************************************************************)
(* Model of sync_periodical.py: one-way periodical mirroring of a source   *)
(* directory onto a destination directory (filecmp.dircmp + shutil).       *)
(*                                                                         *)
(* A directory tree is a function from relative paths to nodes.  A node is *)
(* absent ("none"), a regular file, a directory, or a symbolic link whose  *)
(* target is a regular file ("lfile"), a directory ("ldir") or missing     *)
(* ("lnone").  Every symbolic link has a target of its own, outside both   *)
(* trees; the contents of a linked directory are the nodes below the link. *)
(*                                                                         *)
(* The two directories are given by path arguments.  Besides two separate  *)
(* directories the model has two spellings of one directory, and a source  *)
(* that lies inside the destination under a spelling the nesting check     *)
(* does not see through: there the source directory is an entry of the     *)
(* destination tree, and is gone when that entry is removed.               *)
(***************************************************************************)
EXTENDS Integers, Sequences, FiniteSets, TLC

\* ------------------------------------------------------------- bounds ----
MaxNodes  == 3      \* entries in the source and destination trees together
MaxPasses == 2      \* the pass counter saturates here
LiveNodes == 2      \* entries in both trees together, in the runs of LiveSpec

\* ----------------------------------------------------- names and paths ---
NameOrder == <<"a", "b">>            \* list.sort() order of the entry names
NameSet   == {"a", "b"}
Root      == <<>>
Paths     == {<<"a">>, <<"b">>, <<"a", "a">>}

Parent(q)    == SubSeq(q, 1, Len(q) - 1)
Child(p, x)  == p \o <<x>>
Below(p)     == {q \in Paths : Len(q) > Len(p) /\ SubSeq(q, 1, Len(p)) = p}
Rel(p, q)    == SubSeq(q, Len(p) + 1, Len(q))

\* ------------------------------------------------------------- nodes -----
None      == [k |-> "none", c |-> 0, m |-> 0]
Dir       == [k |-> "dir", c |-> 0, m |-> 0]
LinkDir   == [k |-> "ldir", c |-> 0, m |-> 0]
LinkNone  == [k |-> "lnone", c |-> 0, m |-> 0]
File(c, m)     == [k |-> "file", c |-> c, m |-> m]
LinkFile(c, m) == [k |-> "lfile", c |-> c, m |-> m]

\* st_size of a content: contents 1 and 2 have the same length, 3 is longer
Size(c) == IF c = 3 THEN 2 ELSE 1

SrcNodes == {None, Dir, LinkDir, LinkNone, File(1, 1), LinkFile(1, 1)}
DstNodes == {None, Dir, LinkDir, File(1, 1), File(2, 1), File(3, 2)}

\* os.path.isdir / Path.is_dir: follows symbolic links
is_dir(n)  == n.k \in {"dir", "ldir"}
\* S_ISREG(os.stat(..)): follows symbolic links
is_reg(n)  == n.k \in {"file", "lfile"}
\* os.path.islink
islink(n)  == n.k \in {"lfile", "ldir", "lnone"}
\* os.path.exists: follows symbolic links, False for a dangling one
exists(n)  == n.k \in {"file", "lfile", "dir", "ldir"}

EmptyTree == [q \in Paths |-> None]

NodeCount(T) == Cardinality({q \in Paths : T[q].k # "none"})

\* an entry exists only inside a directory (or a link to one)
WellFormed(T) ==
    \A q \in Paths : (Len(q) > 1 /\ T[q].k # "none") => is_dir(T[Parent(q)])

SrcTrees == {T \in [Paths -> SrcNodes] : WellFormed(T)}
DstTrees == {T \in [Paths -> DstNodes] : WellFormed(T)}

\* os.listdir of the directory at p
listdir(T, p) == {x \in NameSet : Child(p, x) \in Paths /\ T[Child(p, x)].k # "none"}

\* the names of S as a sorted list
SortedList(S) == SelectSeq(NameOrder, LAMBDA x : x \in S)

\* the elements of a list
Elems(s) == {s[i] : i \in 1..Len(s)}

\* ------------------------------------------------ command line paths -----
\* A path argument is the list of its components, relative to the working
\* directory; the directories x, y and x/y exist.
ArgPaths == {<<"x">>, <<"y">>, <<".", "x">>, <<"x", "y">>, <<"y", "..", "x">>}

\* pathlib.Path(arg): "." components are dropped, ".." components are kept
PurePath(arg) == SelectSeq(arg, LAMBDA c : c # ".")

\* Path.parents: the proper lexical ancestors
parents(p) == {SubSeq(p, 1, n) : n \in 0..(Len(p) - 1)}

\* the directory a path denotes: ".." steps back to the parent
RECURSIVE Resolve(_)
Resolve(p) ==
    IF p = <<>> THEN <<>>
    ELSE LET r == Resolve(SubSeq(p, 1, Len(p) - 1))
             c == p[Len(p)]
         IN  IF c = "." THEN r
             ELSE IF c = ".." THEN (IF r = <<>> THEN r ELSE SubSeq(r, 1, Len(r) - 1))
             ELSE r \o <<c>>

SameDir(s, d) == Resolve(s) = Resolve(d)
Inside(in, out) == /\ Len(Resolve(in)) > Len(Resolve(out))
                   /\ SubSeq(Resolve(in), 1, Len(Resolve(out))) = Resolve(out)
Overlapping(s, d) == SameDir(s, d) \/ Inside(d, s) \/ Inside(s, d)

\* the directory nesting check of __main__
NestingError(s, d) ==
    LET src == PurePath(s)
        dst == PurePath(d)
    IN  \/ src = dst
        \/ src \in parents(dst)
        \/ dst \in parents(src)

\* ------------------------------------------------------ filecmp ----------
\* filecmp._sig of os.stat: (type, size, mtime), through symbolic links
S_IFMT(n) == IF is_dir(n) THEN "DIR" ELSE "REG"
_sig(n)   == <<S_IFMT(n), Size(n.c), n.m>>

\* filecmp.cmp(f1, f2, shallow) on the files at relative path q, with the
\* module-level _cache, which lives as long as the process.  (The cache is
\* cleared above 100 entries, which the modelled trees never reach.)
cmp(q, n1, n2, shallow, cache) ==
    LET s1  == _sig(n1)
        s2  == _sig(n2)
        hit == {e \in cache : e.f = q /\ e.s1 = s1 /\ e.s2 = s2}
    IN  IF s1[1] # "REG" \/ s2[1] # "REG" THEN [out |-> FALSE, cache |-> cache]
        ELSE IF shallow /\ s1 = s2 THEN [out |-> TRUE, cache |-> cache]
        ELSE IF s1[2] # s2[2] THEN [out |-> FALSE, cache |-> cache]
        ELSE IF hit # {} THEN [out |-> (CHOOSE e \in hit : TRUE).out, cache |-> cache]
        ELSE LET o == (n1.c = n2.c)      \* _do_cmp: byte comparison
             IN  [out |-> o,
                  cache |-> cache \cup {[f |-> q, s1 |-> s1, s2 |-> s2, out |-> o]}]

\* filecmp.cmpfiles over the list common of directory p; the names in bad
\* raise OSError in _cmp and are reported as funny
RECURSIVE cmpfiles(_, _, _, _, _, _, _)
cmpfiles(L, R, p, common, shallow, bad, cache) ==
    IF common = <<>>
    THEN [same |-> <<>>, diff |-> <<>>, funny |-> <<>>, cache |-> cache]
    ELSE LET x    == Head(common)
             q    == Child(p, x)
             r    == IF x \in bad THEN [out |-> FALSE, cache |-> cache]
                     ELSE cmp(q, L[q], R[q], shallow, cache)
             rest == cmpfiles(L, R, p, Tail(common), shallow, bad, r.cache)
         IN  [same  |-> IF x \notin bad /\ r.out THEN <<x>> \o rest.same ELSE rest.same,
              diff  |-> IF x \notin bad /\ ~r.out THEN <<x>> \o rest.diff ELSE rest.diff,
              funny |-> IF x \in bad THEN <<x>> \o rest.funny ELSE rest.funny,
              cache |-> rest.cache]

\* dircmp.phase0 .. phase2 for the directory p of both trees
left_list(L, p)  == SortedList(listdir(L, p))
right_list(R, p) == SortedList(listdir(R, p))
common(L, R, p)  == SortedList(listdir(L, p) \cap listdir(R, p))
\* faulty variant: a name whose type differs on the two sides counted as
\* missing in the destination
left_only_or_other_type(L, R, p) ==
    SortedList({x \in listdir(L, p) :
                   \/ x \notin listdir(R, p)
                   \/ S_IFMT(L[Child(p, x)]) # S_IFMT(R[Child(p, x)])})
left_only(L, R, p)  == SortedList(listdir(L, p) \ listdir(R, p))
\* faulty variant: right_list taken for right_only
right_only_is_right_list(L, R, p) == SortedList(listdir(R, p))
right_only(L, R, p) == SortedList(listdir(R, p) \ listdir(L, p))

common_dirs(L, R, p) ==
    SelectSeq(common(L, R, p),
              LAMBDA x : is_dir(L[Child(p, x)]) /\ is_dir(R[Child(p, x)]))
common_files(L, R, p) ==
    SelectSeq(common(L, R, p),
              LAMBDA x : is_reg(L[Child(p, x)]) /\ is_reg(R[Child(p, x)]))
\* faulty variant: only the entries os.stat fails on are funny; a file
\* against a directory is dropped
common_funny_stat_only(L, R, p) ==
    SelectSeq(common(L, R, p),
              LAMBDA x : \/ ~exists(L[Child(p, x)])
                         \/ ~exists(R[Child(p, x)]))
common_funny(L, R, p) ==
    SelectSeq(common(L, R, p),
              LAMBDA x : \/ ~exists(L[Child(p, x)])
                         \/ ~exists(R[Child(p, x)])
                         \/ S_IFMT(L[Child(p, x)]) # S_IFMT(R[Child(p, x)]))

\* DirCmpByContents.phase3 (shallow = FALSE) and dircmp.phase3 (shallow = TRUE)
phase3(L, R, p, by_content, bad, cache) ==
    cmpfiles(L, R, p, common_files(L, R, p), ~by_content, bad, cache)

\* ------------------------------------------------------- shutil -----------
Removed(T, q) == [r \in Paths |-> IF r = q \/ r \in Below(q) THEN None ELSE T[r]]

\* shutil.rmtree(path, ignore_errors=True): refuses a symbolic link, and
\* swallows every error
rmtree(T, q, fault) ==
    IF fault # "ok" \/ islink(T[q]) THEN T ELSE Removed(T, q)

\* Path.unlink(missing_ok=True)
unlink(T, q) == Removed(T, q)

\* one iteration of the loop of remove_inodes
remove_inode(T, q, fault) ==
    IF is_dir(T[q])
    THEN LET T2 == rmtree(T, q, fault)
         IN  [tree |-> T2, res |-> IF T2[q].k = "none" THEN "ok" ELSE "silent"]
    ELSE IF fault # "ok" THEN [tree |-> T, res |-> "logged"]
         ELSE [tree |-> unlink(T, q), res |-> "ok"]

\* shutil.copyfile + copystat of the source node s onto the destination path dq
copyfile(s, R, dq, follow_symlinks) ==
    IF ~follow_symlinks /\ islink(s)
    THEN \* os.symlink(os.readlink(src), dst)
         IF R[dq].k # "none" THEN [tree |-> R, err |-> TRUE]
         ELSE [tree |-> [R EXCEPT ![dq] = s], err |-> FALSE]
    ELSE IF ~exists(s) THEN [tree |-> R, err |-> TRUE]         \* open(src) fails
    ELSE IF is_dir(R[dq]) THEN [tree |-> R, err |-> TRUE]       \* open(dst) fails
    ELSE IF islink(R[dq])                                      \* written through
         THEN [tree |-> [R EXCEPT ![dq] = LinkFile(s.c, s.m)], err |-> FALSE]
         ELSE [tree |-> [R EXCEPT ![dq] = File(s.c, s.m)], err |-> FALSE]

\* shutil.copy2(src, dst): a directory dst receives the file under its own name
copy2(s, R, dq, follow_symlinks) ==
    IF is_dir(R[dq])
    THEN IF Child(dq, dq[Len(dq)]) \in Paths
         THEN copyfile(s, R, Child(dq, dq[Len(dq)]), follow_symlinks)
         ELSE [tree |-> R, err |-> TRUE]
    ELSE copyfile(s, R, dq, follow_symlinks)

\* shutil.copytree(src, dst, symlinks, ignore_dangling_symlinks=True,
\* dirs_exist_ok=True) of the directory at q; entries is the loop over the
\* entries still to copy
RECURSIVE copytree(_, _, _, _)
RECURSIVE copytree_entries(_, _, _, _, _)
copytree(L, R, q, symlinks) ==
    IF R[q].k # "none" /\ ~is_dir(R[q])
    THEN [tree |-> R, err |-> TRUE]                       \* os.makedirs fails
    ELSE LET R1 == IF R[q].k = "none" THEN [R EXCEPT ![q] = Dir] ELSE R
         IN  copytree_entries(L, R1, q, SortedList(listdir(L, q)), symlinks)

copytree_entries(L, R, q, entries, symlinks) ==
    IF entries = <<>> THEN [tree |-> R, err |-> FALSE]
    ELSE LET d == Child(q, Head(entries))
             e == L[d]
             r == IF islink(e)
                  THEN IF symlinks
                       THEN IF R[d].k # "none" THEN [tree |-> R, err |-> TRUE]
                            ELSE [tree |-> [t \in Paths |->
                                              IF t = d \/ t \in Below(d)
                                              THEN L[t] ELSE R[t]],
                                  err |-> FALSE]
                       ELSE IF ~exists(e) THEN [tree |-> R, err |-> FALSE]
                            ELSE IF is_dir(e) THEN copytree(L, R, d, symlinks)
                            ELSE copy2(e, R, d, TRUE)
                  ELSE IF is_dir(e) THEN copytree(L, R, d, symlinks)
                  ELSE copy2(e, R, d, TRUE)
             rest == copytree_entries(L, r.tree, q, Tail(entries), symlinks)
         IN  [tree |-> rest.tree, err |-> r.err \/ rest.err]

\* faulty variant: copytree called with symlinks=follow_symlinks
copy_inode_symlinks_swapped(L, R, q, follow_symlinks, fault) ==
    LET s == L[q]
        r == IF is_dir(s)
             THEN IF fault # "ok" THEN [tree |-> R, err |-> TRUE]
                  ELSE copytree(L, R, q, follow_symlinks)
             ELSE IF fault # "ok" THEN [tree |-> R, err |-> TRUE]
                  ELSE copy2(s, R, q, follow_symlinks)
    IN  [tree |-> r.tree, res |-> IF r.err THEN "logged" ELSE "ok"]

\* one iteration of the loop of copy_inodes.  fault "fail": the operation
\* raises before changing anything; fault "partial": copytree creates the
\* directory, fails on its entries and raises shutil.Error
copy_inode(L, R, q, follow_symlinks, fault) ==
    LET s == L[q]
        r == IF is_dir(s)
             THEN IF fault = "fail" THEN [tree |-> R, err |-> TRUE]
                  ELSE IF fault = "partial"
                       THEN [tree |-> IF R[q].k = "none" THEN [R EXCEPT ![q] = Dir]
                                      ELSE R,
                             err |-> TRUE]
                  ELSE copytree(L, R, q, ~follow_symlinks)
             ELSE IF fault # "ok" THEN [tree |-> R, err |-> TRUE]
                  ELSE copy2(s, R, q, follow_symlinks)
    IN  [tree |-> r.tree, res |-> IF r.err THEN "logged" ELSE "ok"]

\* ------------------------------------------------------- state ------------
VARIABLES
    args,     \* the parsed command line: src, dst, dry, follow_symlinks, by_content, interval
    srcT,     \* the tree below the source directory
    dstT,     \* the tree below the destination directory
    pc,       \* "Validating", "Comparing", "Mirroring", "Sleeping", "Stopped"
    code,     \* the exit status, -1 while the process runs
    stack,    \* the active calls of mirror_dircmp, innermost last
    cache,    \* filecmp._cache
    passes,   \* passes started (saturating at MaxPasses)
    faulted,  \* an I/O fault has been injected (at most one in a run)
    ops,      \* history: warnings, removes and copies of the current pass
    seen,     \* history: <<path, class>> for every name classified in this pass
    dst0,     \* history: the destination tree when the current pass started
    src0,     \* history: the source tree when the current pass started
    failed,   \* history: some remove or copy of this run did not succeed
    exc       \* history: the exception that ended the process, or "none"

vars == <<args, srcT, dstT, pc, code, stack, cache, passes, faulted, ops, seen, dst0, src0,
          failed, exc>>

\* a dircmp object whose attributes are not computed yet, about to be mirrored
NewFrame(p) ==
    [dir |-> p, phase |-> "enter", i |-> 1,
     left_only |-> <<>>, right_only |-> <<>>, same_files |-> <<>>,
     diff_files |-> <<>>, funny_files |-> <<>>, common_funny |-> <<>>,
     common_dirs |-> <<>>]

Top(st)          == st[Len(st)]
Pop(st)          == SubSeq(st, 1, Len(st) - 1)
SetTop(st, f)    == [st EXCEPT ![Len(st)] = f]

\* "if dir_cmp.<list>: ... if not dry:" of lines 78-89, for the entries of the
\* list names that the call f has not handled yet
to_do_ignoring_dry(f, names, dry) == f.i <= Len(names)
to_do(f, names, dry) == ~dry /\ f.i <= Len(names)

\* faulty variant: the different files rewritten before the names only in
\* the source are copied
RECURSIVE mirror_dircmp_diff_first(_, _)
mirror_dircmp_diff_first(st, dry) ==
    IF st = <<>> THEN st
    ELSE LET f == Top(st)
         IN  CASE f.phase = "enter" -> st
               [] f.phase = "remove" ->
                    IF to_do(f, f.right_only, dry) THEN st
                    ELSE mirror_dircmp_diff_first(
                             SetTop(st, [f EXCEPT !.phase = "copy_diff", !.i = 1]), dry)
               [] f.phase = "copy_diff" ->
                    IF to_do(f, f.diff_files, dry) THEN st
                    ELSE mirror_dircmp_diff_first(
                             SetTop(st, [f EXCEPT !.phase = "copy_left", !.i = 1]), dry)
               [] f.phase = "copy_left" ->
                    IF to_do(f, f.left_only, dry) THEN st
                    ELSE mirror_dircmp_diff_first(
                             SetTop(st, [f EXCEPT !.phase = "subdirs", !.i = 1]), dry)
               [] f.phase = "subdirs" ->
                    IF f.i <= Len(f.common_dirs) THEN st
                    ELSE mirror_dircmp_diff_first(Pop(st), dry)

\* mirror_dircmp between two filesystem operations: skip what has nothing to
\* do (an empty list, or any list when dry) and return from finished calls
RECURSIVE mirror_dircmp(_, _)
mirror_dircmp(st, dry) ==
    IF st = <<>> THEN st
    ELSE LET f == Top(st)
         IN  CASE f.phase = "enter" -> st
               [] f.phase = "remove" ->
                    IF to_do(f, f.right_only, dry) THEN st
                    ELSE mirror_dircmp(SetTop(st, [f EXCEPT !.phase = "copy_left", !.i = 1]), dry)
               [] f.phase = "copy_left" ->
                    IF to_do(f, f.left_only, dry) THEN st
                    ELSE mirror_dircmp(SetTop(st, [f EXCEPT !.phase = "copy_diff", !.i = 1]), dry)
               [] f.phase = "copy_diff" ->
                    IF to_do(f, f.diff_files, dry) THEN st
                    ELSE mirror_dircmp(SetTop(st, [f EXCEPT !.phase = "subdirs", !.i = 1]), dry)
               [] f.phase = "subdirs" ->
                    IF f.i <= Len(f.common_dirs) THEN st
                    ELSE mirror_dircmp(Pop(st), dry)

Min(a, b) == IF a < b THEN a ELSE b

Bool == {TRUE, FALSE}

Options == [dry : Bool, follow_symlinks : Bool, by_content : Bool, interval : {0, 1}]

\* pairs of trees for the configuration <<"x">>, <<"y">>
TreePairs ==
    {tp \in SrcTrees \X DstTrees : NodeCount(tp[1]) + NodeCount(tp[2]) <= MaxNodes}

\* the trees used with the other spellings of the two directories
SmallTrees == {EmptyTree, [EmptyTree EXCEPT ![<<"a">>] = File(1, 1)]}

\* The directory x/y is the entry Mount of the tree below x.
Mount == <<"b">>

\* the source x/y spelled so that the nesting check does not see that it
\* lies inside the destination x
SrcInDst(s, d) == Inside(s, d) /\ ~NestingError(s, d)

\* pairs of trees for a source x/y inside the destination x: the destination
\* holds the source directory; the source holds no entry of that name (its
\* content is never compared with itself)
NestedTrees ==
    {tp \in TreePairs : tp[1][Mount].k = "none" /\ tp[2][Mount] = Dir}

\* Two spellings of the same directory have the same tree.  The inputs leave
\* out the destination nested inside the source without the nesting check
\* seeing it: the copy would nest without end.
InitTrees(s, d) ==
    IF s = <<"x">> /\ d = <<"y">> THEN TreePairs
    ELSE IF SameDir(s, d) THEN {<<T, T>> : T \in SmallTrees}
    ELSE IF SrcInDst(s, d) THEN NestedTrees
    ELSE SmallTrees \X SmallTrees

\* An option that cannot change anything for the given trees is taken at its
\* default only: follow_symlinks is read only when a source entry is a
\* symbolic link, and by_content only decides about names that are regular
\* files on both sides (a file the program copied itself has the content,
\* size and mtime of its source, equal in both modes).
Relevant(o, L, R) ==
    /\ o.follow_symlinks => \E q \in Paths : islink(L[q])
    /\ o.by_content => \E q \in Paths : is_reg(L[q]) /\ is_reg(R[q])

Init ==
    /\ \E s \in ArgPaths, d \in ArgPaths, o \in Options :
          /\ Inside(d, s) => NestingError(s, d)
          /\ args = [src |-> s, dst |-> d, dry |-> o.dry,
                     follow_symlinks |-> o.follow_symlinks,
                     by_content |-> o.by_content, interval |-> o.interval]
          /\ \E tp \in InitTrees(s, d) :
                srcT = tp[1] /\ dstT = tp[2] /\ Relevant(o, tp[1], tp[2])
    /\ pc = "Validating"
    /\ code = -1
    /\ stack = <<>>
    /\ cache = {}
    /\ passes = 0
    /\ faulted = FALSE
    /\ ops = <<>>
    /\ seen = {}
    /\ dst0 = dstT
    /\ src0 = srcT
    /\ failed = FALSE
    /\ exc = "none"

\* ------------------------------------------------------- actions ----------
Running == pc # "Stopped"

OpRec(op, q, res) == [op |-> op, path |-> q, res |-> res]
Classed(p, names, class) == {<<Child(p, names[j]), class>> : j \in 1..Len(names)}
Warnings(p, names) == [j \in 1..Len(names) |-> OpRec("warn", Child(p, names[j]), "ok")]

\* the source directory has been removed with the destination entry it is
SrcGone(D) == SrcInDst(args.src, args.dst) /\ D[Mount].k = "none"

\* the source tree after an operation that left the destination tree D
SourceAfter(D) == IF SrcGone(D) THEN EmptyTree ELSE srcT

\* the outcomes the environment may still give one operation
FaultChoices(kinds) == IF faulted THEN {"ok"} ELSE {"ok"} \cup kinds

\* Exception and its subclasses, as far as the model raises them
Exceptions == {"OSError"}

\* faulty variant: "except Exception" treated like the KeyboardInterrupt clause
exit_status_all_zero(type, arg, in_try) ==
    IF in_try /\ type \in Exceptions \cup {"KeyboardInterrupt"} THEN 0
    ELSE IF type = "SystemExit" THEN arg
    ELSE IF type = "KeyboardInterrupt" THEN 130
    ELSE 1

\* The exit status of the process when an exception leaves the main program:
\* the try statement of lines 168-184 when it was raised inside it, else the
\* interpreter (SystemExit: its argument, a message counting as 1; an
\* uncaught KeyboardInterrupt: the status of SIGINT; any other: 1)
exit_status(type, arg, in_try) ==
    IF in_try /\ type = "KeyboardInterrupt" THEN 0
    ELSE IF in_try /\ type \in Exceptions THEN 1
    ELSE IF type = "SystemExit" THEN arg
    ELSE IF type = "KeyboardInterrupt" THEN 130
    ELSE 1

\* an exception leaves the main program at the current position
Raise(type, arg) ==
    /\ pc' = "Stopped"
    /\ code' = exit_status(type, arg, pc # "Validating")
    /\ exc' = type

\* __main__, lines 129-141: the directory nesting check.  SystemExit(msg)
\* ends the process with status 1.
Validate ==
    /\ pc = "Validating"
    /\ IF NestingError(args.src, args.dst)
       THEN Raise("SystemExit", 1)
       ELSE pc' = "Comparing" /\ UNCHANGED <<code, exc>>
    /\ UNCHANGED <<args, srcT, dstT, stack, cache, passes, faulted, ops, seen, dst0, src0, failed>>

\* __main__, lines 170-172: a new dircmp object for the two directories and
\* the call of mirror_dircmp on it.  The constructor reads nothing.
Compare ==
    /\ pc = "Comparing"
    /\ pc' = "Mirroring"
    /\ stack' = <<NewFrame(Root)>>
    /\ passes' = Min(passes + 1, MaxPasses)
    /\ ops' = <<>>
    /\ seen' = {}
    /\ dst0' = dstT
    /\ src0' = srcT
    /\ UNCHANGED <<args, srcT, dstT, code, cache, faulted, failed, exc>>

\* mirror_dircmp, lines 73-76: the first attribute access lists and
\* classifies both directories (dircmp phase0 .. phase3), then the funny
\* entries are reported
Enter ==
    /\ pc = "Mirroring" /\ stack # <<>> /\ Top(stack).phase = "enter"
    /\ ~SrcGone(dstT)
    /\ LET f == Top(stack)
           p == f.dir
       IN  \E bad \in SUBSET Elems(common_files(srcT, dstT, p)) :
             /\ Cardinality(bad) <= (IF faulted THEN 0 ELSE 1)
             /\ LET r  == phase3(srcT, dstT, p, args.by_content, bad, cache)
                    f2 == [f EXCEPT !.phase = "remove", !.i = 1,
                                    !.left_only = left_only(srcT, dstT, p),
                                    !.right_only = right_only(srcT, dstT, p),
                                    !.same_files = r.same,
                                    !.diff_files = r.diff,
                                    !.funny_files = r.funny,
                                    !.common_funny = common_funny(srcT, dstT, p),
                                    !.common_dirs = common_dirs(srcT, dstT, p)]
                IN  /\ stack' = mirror_dircmp(SetTop(stack, f2), args.dry)
                    /\ cache' = r.cache
                    /\ faulted' = (faulted \/ bad # {})
                    /\ ops' = ops \o Warnings(p, f2.funny_files)
                                  \o Warnings(p, f2.common_funny)
                    /\ seen' = seen \cup Classed(p, f2.left_only, "left_only")
                                    \cup Classed(p, f2.right_only, "right_only")
                                    \cup Classed(p, f2.same_files, "same_files")
                                    \cup Classed(p, f2.diff_files, "diff_files")
                                    \cup Classed(p, f2.funny_files, "funny_files")
                                    \cup Classed(p, f2.common_funny, "common_funny")
                                    \cup Classed(p, f2.common_dirs, "common_dirs")
    /\ UNCHANGED <<args, srcT, dstT, pc, code, passes, dst0, src0, failed, exc>>

\* os.listdir raises OSError in dircmp.phase0 (an I/O fault, or the source
\* directory is gone): the exception leaves mirror_dircmp and reaches
\* "except Exception", lines 182-184
ListdirFails ==
    /\ pc = "Mirroring" /\ stack # <<>> /\ Top(stack).phase = "enter"
    /\ IF SrcGone(dstT) THEN UNCHANGED faulted
       ELSE ~faulted /\ faulted' = TRUE
    /\ Raise("OSError", 0)
    /\ UNCHANGED <<args, srcT, dstT, stack, cache, passes, ops, seen, dst0, src0, failed>>

\* mirror_dircmp, lines 78-81 with one iteration of remove_inodes
Remove ==
    /\ pc = "Mirroring" /\ stack # <<>> /\ Top(stack).phase = "remove"
    /\ LET f == Top(stack)
           q == Child(f.dir, f.right_only[f.i])
       IN  \E fault \in FaultChoices({"fail"}) :
             LET r == remove_inode(dstT, q, fault)
             IN  /\ dstT' = r.tree
                 /\ ops' = Append(ops, OpRec("remove", q, r.res))
                 /\ faulted' = (faulted \/ fault # "ok")
                 /\ failed' = (failed \/ r.res # "ok")
                 /\ srcT' = SourceAfter(r.tree)
                 /\ stack' = mirror_dircmp(SetTop(stack, [f EXCEPT !.i = f.i + 1]), args.dry)
    /\ UNCHANGED <<args, pc, code, cache, passes, seen, dst0, src0, exc>>

\* faulty variant: copy_inodes without its try statement
Copy_unprotected(phase) ==
    /\ pc = "Mirroring" /\ stack # <<>> /\ Top(stack).phase = phase
    /\ LET f == Top(stack)
           names == IF phase = "copy_left" THEN f.left_only ELSE f.diff_files
           q == Child(f.dir, names[f.i])
       IN  \E fault \in FaultChoices(IF is_dir(srcT[q]) THEN {"fail", "partial"}
                                     ELSE {"fail"}) :
             LET r == copy_inode(srcT, dstT, q, args.follow_symlinks, fault)
             IN  /\ dstT' = r.tree
                 /\ ops' = Append(ops, OpRec(phase, q, r.res))
                 /\ faulted' = (faulted \/ fault # "ok")
                 /\ failed' = (failed \/ r.res # "ok")
                 /\ srcT' = SourceAfter(r.tree)
                 /\ IF r.res = "ok"
                    THEN /\ stack' = mirror_dircmp(SetTop(stack, [f EXCEPT !.i = f.i + 1]),
                                                   args.dry)
                         /\ UNCHANGED <<pc, code, exc>>
                    ELSE Raise("OSError", 0) /\ UNCHANGED stack
    /\ UNCHANGED <<args, cache, passes, seen, dst0, src0>>

\* one iteration of copy_inodes for the list of the phase
Copy(phase) ==
    /\ pc = "Mirroring" /\ stack # <<>> /\ Top(stack).phase = phase
    /\ LET f == Top(stack)
           names == IF phase = "copy_left" THEN f.left_only ELSE f.diff_files
           q == Child(f.dir, names[f.i])
       IN  \E fault \in FaultChoices(IF is_dir(srcT[q]) THEN {"fail", "partial"}
                                     ELSE {"fail"}) :
             LET r == copy_inode(srcT, dstT, q, args.follow_symlinks, fault)
             IN  /\ dstT' = r.tree
                 /\ ops' = Append(ops, OpRec(phase, q, r.res))
                 /\ faulted' = (faulted \/ fault # "ok")
                 /\ failed' = (failed \/ r.res # "ok")
                 /\ srcT' = SourceAfter(r.tree)
                 /\ stack' = mirror_dircmp(SetTop(stack, [f EXCEPT !.i = f.i + 1]), args.dry)
    /\ UNCHANGED <<args, pc, code, cache, passes, seen, dst0, src0, exc>>

\* mirror_dircmp, lines 82-85
CopyLeft == Copy("copy_left")

\* mirror_dircmp, lines 86-89
CopyDiff == Copy("copy_diff")

\* mirror_dircmp, lines 91-96: the recursive call for the next common
\* subdirectory, on a dircmp object made by phase4
Descend ==
    /\ pc = "Mirroring" /\ stack # <<>> /\ Top(stack).phase = "subdirs"
    /\ LET f == Top(stack)
       IN  stack' = Append(SetTop(stack, [f EXCEPT !.i = f.i + 1]),
                           NewFrame(Child(f.dir, f.common_dirs[f.i])))
    /\ UNCHANGED <<args, srcT, dstT, pc, code, cache, passes, faulted, ops, seen, dst0, src0, failed, exc>>

\* faulty variant: the test of args.interval inverted
EndPass_inverted ==
    /\ pc = "Mirroring" /\ stack = <<>>
    /\ IF args.interval = 0
       THEN pc' = "Sleeping" /\ UNCHANGED <<code, exc>>
       ELSE Raise("SystemExit", 0)
    /\ UNCHANGED <<args, srcT, dstT, stack, cache, passes, faulted, ops, seen, dst0, src0, failed>>

\* __main__, lines 173-178: mirror_dircmp has returned
EndPass ==
    /\ pc = "Mirroring" /\ stack = <<>>
    /\ IF args.interval # 0
       THEN pc' = "Sleeping" /\ UNCHANGED <<code, exc>>
       ELSE Raise("SystemExit", 0)
    /\ UNCHANGED <<args, srcT, dstT, stack, cache, passes, faulted, ops, seen, dst0, src0, failed>>

\* faulty variant: the loop is left after the first sleep
Sleep_then_exit ==
    /\ pc = "Sleeping"
    /\ Raise("SystemExit", 0)
    /\ UNCHANGED <<args, srcT, dstT, stack, cache, passes, faulted, ops, seen, dst0, src0, failed>>

\* __main__, line 175: sleep(args.interval) returns
Sleep ==
    /\ pc = "Sleeping"
    /\ pc' = "Comparing"
    /\ UNCHANGED <<args, srcT, dstT, code, stack, cache, passes, faulted, ops, seen, dst0, src0, failed, exc>>

\* Ctrl-C: KeyboardInterrupt is raised wherever the program is.  Inside the
\* try block lines 179-181 catch it; before it (lines 127-166) nothing does.
Interrupt ==
    /\ Running
    /\ Raise("KeyboardInterrupt", 0)
    /\ UNCHANGED <<args, srcT, dstT, stack, cache, passes, faulted, ops, seen, dst0, src0, failed>>

Next ==
    \/ Validate
    \/ Compare
    \/ Enter
    \/ ListdirFails
    \/ Remove
    \/ CopyLeft
    \/ CopyDiff
    \/ Descend
    \/ EndPass
    \/ Sleep
    \/ Interrupt

Spec == Init /\ [][Next]_vars

\* The program is sequential and every call it makes returns: each step of
\* the program that can be taken is taken (listing a directory that is gone
\* raises).  I/O faults and Ctrl-C are the environment's and need not happen.
ProgramStep ==
    \/ Validate \/ Compare \/ Remove \/ CopyLeft \/ CopyDiff
    \/ Descend \/ EndPass \/ Sleep
    \/ (SrcGone(dstT) /\ ListdirFails)

\* ENABLED <<Enter>>_vars, written out: the guard of Enter
EnterEnabled ==
    pc = "Mirroring" /\ stack # <<>> /\ Top(stack).phase = "enter" /\ ~SrcGone(dstT)

\* weak fairness of the program's steps; for Enter in the form
\* []<>~ENABLED <<A>>_v \/ []<><<A>>_v of WF_v(A)
Fairness ==
    /\ WF_vars(ProgramStep)
    /\ ([]<>(~EnterEnabled) \/ []<><<Enter>>_vars)

\* the runs of periodic mode on trees of at most LiveNodes entries
LiveInit ==
    /\ Init
    /\ args.interval # 0 /\ ~NestingError(args.src, args.dst)
    /\ NodeCount(srcT) + NodeCount(dstT) <= LiveNodes

LiveSpec == LiveInit /\ [][Next]_vars /\ Fairness

TypeOK ==
    /\ pc \in {"Validating", "Comparing", "Mirroring", "Sleeping", "Stopped"}
    /\ code \in {-1, 0, 1, 130}
    /\ passes \in 0..MaxPasses
    /\ faulted \in BOOLEAN
    /\ WellFormed(srcT) /\ WellFormed(dstT)
    /\ exc \in {"none", "KeyboardInterrupt", "SystemExit"} \cup Exceptions

\* mirror_dircmp has returned to line 173: the pass is complete
PassDone == pc = "Mirroring" /\ stack = <<>>

\* ------------------------------------------------------- claims -----------
Classified(class) == {e[1] : e \in {e \in seen : e[2] = class}}

\* the removes and copies of the current pass
Mutations == SelectSeq(ops, LAMBDA o : o.op # "warn")

\* C1: whenever src and dst denote the same directory or one lies inside the
\* other, the program never leaves Validating except to stop with a non-zero
\* status, and nothing has been compared or changed.
C1_OverlapRejected ==
    Overlapping(args.src, args.dst) =>
        /\ pc \in {"Validating", "Stopped"}
        /\ (pc = "Stopped" => code # 0)
        /\ passes = 0 /\ ops = <<>> /\ seen = {} /\ dstT = dst0

\* C2: with dry set no step changes the destination tree or the source tree.
C2_DryRunFrame == [][args.dry => (dstT' = dstT /\ srcT' = srcT)]_vars

\* a second dry pass is complete and had names to remove and names to copy
C2_Witness ==
    /\ args.dry /\ PassDone /\ passes = 2
    /\ Classified("right_only") # {} /\ Classified("left_only") # {}

\* the names present only in the destination when the pass started, at the
\* levels the pass reached
RightOnlyBefore ==
    {q \in Paths : /\ dst0[q].k # "none" /\ src0[q].k = "none"
                   /\ (Len(q) = 1 \/ Parent(q) \in Classified("common_dirs"))}

\* C3: after a complete pass without dry, every name that was only in the
\* destination before the pass is absent from the destination (stated for
\* the runs without an injected I/O fault).
C3_RightOnlyAbsent ==
    (PassDone /\ ~args.dry /\ ~faulted) =>
        \A q \in RightOnlyBefore : dstT[q].k = "none"

\* C4: when a pass without dry has completed and every remove and copy so
\* far succeeded, a following pass removes nothing and copies nothing.
C4_SecondPassIdle ==
    (passes = 2 /\ ~args.dry /\ ~failed /\ ~faulted) => Mutations = <<>>

\* C7: after a complete pass without dry in by-content mode, every file the
\* pass classified as different has the content of the source file (stated
\* for the runs without an injected I/O fault).
C7_DiffFilesEqual ==
    (PassDone /\ ~args.dry /\ args.by_content /\ ~faulted) =>
        \A q \in Classified("diff_files") :
            is_reg(dstT[q]) /\ dstT[q].c = srcT[q].c

\* C9: a KeyboardInterrupt, wherever it arrives, stops the process with
\* status 0.
C9_InterruptStopsZero ==
    exc = "KeyboardInterrupt" => (pc = "Stopped" /\ code = 0)

\* what os.stat sees of a node: a link to a file is a file, a link to a
\* directory is a directory
View(n) == IF is_reg(n) THEN File(n.c, n.m) ELSE IF is_dir(n) THEN Dir ELSE n

Funny == Classified("funny_files") \cup Classified("common_funny")

FirstPassOntoEmpty ==
    PassDone /\ passes = 1 /\ ~args.dry /\ dst0 = EmptyTree /\ ~faulted

Mirrored(q) ==
    LET n == srcT[q]
    IN  IF args.follow_symlinks
        THEN (IF n.k = "lnone" THEN None ELSE View(n))
        ELSE (IF Len(q) = 1 /\ n.k = "ldir" THEN Dir ELSE n)

C6_MirrorGuarantee ==
    (PassDone /\ ~args.dry /\ ~faulted) =>
        \A q \in Classified("left_only") \cup Classified("diff_files")
                 \cup Classified("common_dirs") :
            \A r \in ({q} \cup Below(q)) \ Funny : View(dstT[r]) = View(srcT[r])

\* C8: with interval 0 the program never sleeps, starts a pass only from
\* Validating, starts at most one pass, and the return of mirror_dircmp is
\* followed by the stop with status 0.
C8_RunOnce ==
    [][args.interval = 0 =>
          /\ pc' # "Sleeping"
          /\ (pc' = "Comparing" => pc = "Validating")
          /\ passes' <= 1
          /\ (PassDone => (pc' = "Stopped" /\ code' = 0))]_vars

\* a run-once process has stopped with status 0 after a pass that changed
\* the destination
C8_Witness ==
    /\ args.interval = 0 /\ pc = "Stopped" /\ exc = "SystemExit" /\ code = 0
    /\ passes = 1 /\ Mutations # <<>>

\* C10: an exception that left mirror_dircmp (one no per-entry handler
\* caught) has stopped the process with status 1.
C10_ErrorStopsOne ==
    exc \in Exceptions => (pc = "Stopped" /\ code = 1)

\* the listing of a common subdirectory failed after the pass had already
\* changed the destination
C10_Witness ==
    /\ exc = "OSError" /\ pc = "Stopped" /\ Len(stack) = 2 /\ Mutations # <<>>

\* the names the current pass has removed or copied, by the list they were in
OpsOn(op) == {ops[j].path : j \in {j \in 1..Len(ops) : ops[j].op = op}}

\* every name of the three lists has had its operation, and every entry of
\* every common directory has been classified
AllProcessed ==
    /\ Classified("right_only") \subseteq OpsOn("remove")
    /\ Classified("left_only") \subseteq OpsOn("copy_left")
    /\ Classified("diff_files") \subseteq OpsOn("copy_diff")
    /\ \A q \in Classified("common_dirs") :
          \A r \in Paths :
             (Parent(r) = q /\ (src0[r].k # "none" \/ dst0[r].k # "none"))
                => \E e \in seen : e[1] = r

\* C11: a step in which the remove or copy of one name fails leaves the
\* program mirroring, with no exit status; and when a pass without dry
\* returns, whatever failed in it, every name of right_only, left_only and
\* diff_files has had its operation and every common directory was mirrored.
C11_FailureTolerated ==
    [][/\ (Len(ops') = Len(ops) + 1 /\ ops'[Len(ops')].res # "ok")
             => (pc' = "Mirroring" /\ code' = -1)
       /\ (PassDone' /\ ~args.dry) => AllProcessed']_vars

\* a pass has returned in which a copy failed and was logged, and a common
\* directory of the same level was mirrored after it
C11_Witness ==
    /\ PassDone /\ ~args.dry
    /\ \E j \in 1..Len(ops) : ops[j].res = "logged" /\ ops[j].op = "copy_left"
    /\ Classified("common_dirs") # {}

\* C12: when the directory a call of mirror_dircmp has to list exists on
\* both sides (a common subdirectory) and its listing fails, the process
\* has not stopped on that exception: the pass goes on.
C12_UnreadableDirTolerated ==
    (/\ Len(stack) > 1 /\ Top(stack).phase = "enter"
     /\ is_dir(srcT[Top(stack).dir]) /\ is_dir(dstT[Top(stack).dir]))
        => ~(pc = "Stopped" /\ exc \in Exceptions)

\* C13: for every name the current pass classified as funny_files or
\* common_funny, no remove and no copy of the pass has that name as its
\* target, a warning naming it has been reported, and the destination entry
\* and everything below it are as they were when the pass started.
C13_FunnyUntouched ==
    \A q \in Funny :
        /\ \A j \in 1..Len(ops) : ops[j].path = q => ops[j].op = "warn"
        /\ \E j \in 1..Len(ops) : ops[j].path = q /\ ops[j].op = "warn"
        /\ \A r \in {q} \cup Below(q) : dstT[r] = dst0[r]

\* a pass that removed or copied other names has returned, with a regular
\* file of the source against a directory of the destination
C13_Witness ==
    /\ PassDone /\ ~args.dry /\ Mutations # <<>>
    /\ \E q \in Classified("common_funny") : is_reg(srcT[q]) /\ is_dir(dstT[q])

SixSets == {"left_only", "right_only", "same_files", "diff_files",
            "funny_files", "common_funny"}

\* the classes among cs that the classification S gives the name at q
ClassesOf(S, q, cs) == {c \in cs : <<q, c>> \in S}

\* the step is the classification of the directory of the innermost call
Classifies ==
    /\ pc = "Mirroring" /\ stack # <<>> /\ Top(stack).phase = "enter"
    /\ pc' = "Mirroring"

\* the names listed on either side of the directory being classified
ListedNames ==
    {Child(Top(stack).dir, x) :
        x \in listdir(srcT, Top(stack).dir) \cup listdir(dstT, Top(stack).dir)}

Rank(op) ==
    CASE op = "warn" -> 0
      [] op = "remove" -> 1
      [] op = "copy_left" -> 2
      [] op = "copy_diff" -> 3

\* C15: among the warnings, removes and copies of a pass, those of one
\* directory come in the order warnings, removes of right_only, copies of
\* left_only, copies of diff_files, and none of them comes after a warning,
\* remove or copy inside one of its subdirectories.
C15_ProcessingOrder ==
    \A j \in 1..Len(ops) : \A k \in (j + 1)..Len(ops) :
        LET pj == Parent(ops[j].path)
            pk == Parent(ops[k].path)
        IN  /\ pj = pk => Rank(ops[j].op) <= Rank(ops[k].op)
            /\ ~(Len(pj) > Len(pk) /\ SubSeq(pj, 1, Len(pk)) = pk)

\* a pass has returned that copied a name only in the source and then
\* rewrote a different file of the same directory
C15_Witness ==
    /\ PassDone
    /\ \E j \in 1..Len(ops) : \E k \in (j + 1)..Len(ops) :
          /\ ops[j].op = "copy_left" /\ ops[k].op = "copy_diff"
          /\ Parent(ops[j].path) = Parent(ops[k].path)

\* C16: every remove and every copy of the pass that did not do its work
\* (failed, or left the entry in place or incomplete) has a log record of
\* the failure.
C16_FailureLogged ==
    \A j \in 1..Len(ops) : ops[j].res # "ok" => ops[j].res = "logged"

\* the configuration passes the nesting check and asks for periodic mode
Periodic == args.interval # 0 /\ ~NestingError(args.src, args.dst)

\* C17: in periodic mode the process stops only by Ctrl-C or by an exception
\* that left mirror_dircmp; a returned pass is followed by Sleeping and
\* Sleeping by Comparing; Comparing is entered only from Validating or
\* Sleeping, so never while a pass is mirroring; and unless the process is
\* stopped that way, Comparing is entered again and again.
C17_PeriodicForever ==
    /\ [][Periodic =>
             /\ (pc' = "Stopped" => exc' \in {"KeyboardInterrupt"} \cup Exceptions)
             /\ (PassDone /\ pc' # pc => pc' \in {"Sleeping", "Stopped"})
             /\ (pc = "Sleeping" /\ pc' # pc => pc' \in {"Comparing", "Stopped"})
             /\ (pc' = "Comparing" /\ pc' # pc => pc \in {"Validating", "Sleeping"})
             /\ (pc' = "Sleeping" /\ pc' # pc => PassDone)]_vars
    /\ (Periodic => ([]<>(pc = "Comparing") \/ <>(pc = "Stopped")))

\* the program sleeps after its second pass
C17_Witness ==
    Periodic /\ pc = "Sleeping" /\ passes = 2

\* the class of the name at q in a classification made from nothing but the
\* two trees as they were when the pass started
FreshClass(q) ==
    LET s == src0[q]
        d == dst0[q]
    IN  IF d.k = "none" THEN "left_only"
        ELSE IF s.k = "none" THEN "right_only"
        ELSE IF is_dir(s) /\ is_dir(d) THEN "common_dirs"
        ELSE IF is_reg(s) /\ is_reg(d)
             THEN (IF cmp(q, s, d, ~args.by_content, {}).out
                   THEN "same_files" ELSE "diff_files")
        ELSE "common_funny"

\* C18: the class the current pass has given a name, at any level, is the
\* class that the source and the destination as they were at the start of
\* the pass give it, computed without any result of an earlier pass (a
\* file whose comparison raised is funny_files whatever its content).
C18_FreshDiff ==
    \A e \in seen : e[2] = "funny_files" \/ e[2] = FreshClass(e[1])

\* C19: no step changes the source tree: every entry below the source
\* directory is as it was when the pass started.
C19_SourceUnchanged == srcT = src0

\* some remove or copy of the current pass had q or a directory above q as
\* its target
Touched(q) ==
    \E j \in 1..Len(ops) :
        /\ ops[j].op # "warn"
        /\ Len(ops[j].path) <= Len(q)
        /\ SubSeq(q, 1, Len(ops[j].path)) = ops[j].path

\* C20: every remove of the current pass has a name classified right_only
\* as its target, every copy a name classified left_only or diff_files (by
\* the list it came from); every destination entry that no such operation
\* had as its target or above it, and so every entry classified same_files,
\* is as it was when the pass started.
C20_OnlyClassifiedTouched ==
    /\ OpsOn("remove") \subseteq Classified("right_only")
    /\ OpsOn("copy_left") \subseteq Classified("left_only")
    /\ OpsOn("copy_diff") \subseteq Classified("diff_files")
    /\ \A q \in Paths : ~Touched(q) => dstT[q] = dst0[q]
    /\ \A q \in Classified("same_files") : ~Touched(q)

\* a pass that removed one name has returned and left a same file alone
C20_Witness ==
    /\ PassDone /\ ~args.dry
    /\ Classified("same_files") # {} /\ OpsOn("remove") # {}

====
